---- MODULE Spec2Model ----
(***************************************************************************)
(* A model of memeduck, a builder of Spanner SQL statements.  Statements   *)
(* are Go struct values held through pointers; their clause lists are Go   *)
(* slices, so the model keeps a heap of backing arrays and every slice is  *)
(* a header (array, length, capacity) into it.  Every public constructor,  *)
(* clause-adding method and SQL() is one action on a pool of the           *)
(* statements built so far.                                                *)
(***************************************************************************)
EXTENDS Integers, Sequences, FiniteSets, TLC

VARIABLES
    stmts,      \* the statements built so far, in order of creation
    heap,       \* the backing arrays of the statements' slices
    hist,       \* history: for each statement the call that returned it
    out,        \* the last call, when it was SQL(): what it returned, and
                \* the statements and the heap it was called in
    emptyAnd,   \* what And() over no condition does: "reject" or "fold"
    rowIn,      \* row encoder run: the column list and the row value
    rowOut      \* row encoder run: what toValuesRow and SQL() returned

vars == <<stmts, heap, hist, out, emptyAnd, rowIn, rowOut>>

-----------------------------------------------------------------------------
(* Bounds of the exploration. *)

MaxStmts == 2          \* statements in the pool, all statement kinds
MaxSelectStmts == 3    \* statements in the pool, SELECT only
MaxUpdateStmts == 3    \* statements in the pool, UPDATE only
MaxAliasStmts == 5     \* statements in the pool, slice sharing
MaxArgs == 1           \* conditions given to one Where call
MaxAliasArgs == 2      \* conditions given to one Where call, slice sharing
MaxCols == 2           \* columns of a statement
MaxLimit == 1          \* largest LIMIT count
MaxRowLen == 3         \* elements of a slice row
MaxFields == 2         \* fields of a record row

-----------------------------------------------------------------------------
(* Sequences of bounded length over a set. *)

SeqsUpTo(S, n) == UNION {[1..m -> S] : m \in 0..n}

-----------------------------------------------------------------------------
(* Expressions (memefish ast.Expr) and the conditions built from them. *)

Ident(segs) == [k |-> "ident", segs |-> segs]
IntLit(n) == [k |-> "int", n |-> n]
StrLit(s) == [k |-> "str", s |-> s]
Bool(v) == [k |-> "bool", v |-> v]
NullLit == [k |-> "null"]
Param(name) == [k |-> "param", p |-> name]
BinaryExpr(op, l, r) == [k |-> "binary", op |-> op, l |-> l, r |-> r]
DefaultExpr(e) == [k |-> "default", x |-> e]

(* Results of the fallible operations: a value, an error (the messages of  *)
(* the error, outermost first), or a run-time panic.                       *)
Ok(v) == [st |-> "ok", val |-> v]
Err(msgs) == [st |-> "err", msgs |-> msgs]
Panic(why) == [st |-> "panic", why |-> why]

-----------------------------------------------------------------------------
(* internal.ToExpr: a Go value as an expression.  Go values are records    *)
(* tagged with their reflect kind in field t.                              *)

GoNil == [t |-> "nil"]
GoInt(n) == [t |-> "int", n |-> n]
GoString(s) == [t |-> "string", s |-> s]
GoBool(v) == [t |-> "bool", v |-> v]
GoExpr(e) == [t |-> "expr", x |-> e]
GoMap == [t |-> "map"]
GoSlice(elems) == [t |-> "slice", elems |-> elems]
GoStruct(fields) == [t |-> "struct", fields |-> fields]
GoPtr(elem, target) == [t |-> "ptr", elem |-> elem, to |-> target]

UnsupportedType == "unsupported type"

ToExpr(v) ==
    CASE v.t = "nil" -> Ok(NullLit)
      [] v.t = "int" -> Ok(IntLit(v.n))
      [] v.t = "string" -> Ok(StrLit(v.s))
      [] v.t = "bool" -> Ok(Bool(v.v))
      [] v.t = "expr" -> Ok(v.x)
      [] OTHER -> Err(<<UnsupportedType>>)

-----------------------------------------------------------------------------
(* Conditions: And over the appended conditions and its conversion to the  *)
(* WHERE clause.  An identifier without segments is an error that surfaces *)
(* only here.                                                              *)

EmptyIdentifier == "empty ident"
NoWhereClause == "no WHERE clause"

Eq(lhs, rhs) == BinaryExpr("=", lhs, ToExpr(rhs).val)

RECURSIVE HasEmptyIdent(_)
HasEmptyIdent(e) ==
    CASE e.k = "ident" -> Len(e.segs) = 0
      [] e.k = "binary" -> HasEmptyIdent(e.l) \/ HasEmptyIdent(e.r)
      [] e.k = "default" -> HasEmptyIdent(e.x)
      [] OTHER -> FALSE

RECURSIVE FoldAnd(_)
FoldAnd(conds) ==
    IF Len(conds) = 1 THEN conds[1]
    ELSE BinaryExpr("AND", FoldAnd(SubSeq(conds, 1, Len(conds) - 1)), conds[Len(conds)])

(* And(conds...).ToASTWhere().  Over no condition the result is the one    *)
(* of the two behaviours the implementation has picked (emptyAnd).         *)
AndToASTWhere(conds, ea) ==
    IF Len(conds) = 0
    THEN IF ea = "fold" THEN Ok(Bool(TRUE)) ELSE Err(<<NoWhereClause>>)
    ELSE IF \E i \in 1..Len(conds) : HasEmptyIdent(conds[i])
         THEN Err(<<EmptyIdentifier>>)
         ELSE Ok(FoldAnd(conds))

-----------------------------------------------------------------------------
(* SQL text (memefish's SQL() of the syntax tree) as a sequence of tokens. *)

Kw(w) == [w |-> w]
Name(segs) == [id |-> segs]
Num(n) == [n |-> n]
Quoted(s) == [q |-> s]
At(p) == [at |-> p]

Prec(op) == CASE op = "OR" -> 1 [] op = "AND" -> 2 [] OTHER -> 3

RECURSIVE ExprSQL(_)
ExprSQL(e) ==
    CASE e.k = "ident" -> <<Name(e.segs)>>
      [] e.k = "int" -> <<Num(e.n)>>
      [] e.k = "str" -> <<Quoted(e.s)>>
      [] e.k = "bool" -> <<Kw(IF e.v THEN "TRUE" ELSE "FALSE")>>
      [] e.k = "null" -> <<Kw("NULL")>>
      [] e.k = "param" -> <<At(e.p)>>
      [] e.k = "default" -> ExprSQL(e.x)
      [] e.k = "binary" ->
            LET Side(c) == IF c.k = "binary" /\ Prec(c.op) < Prec(e.op)
                           THEN <<Kw("(")>> \o ExprSQL(c) \o <<Kw(")")>>
                           ELSE ExprSQL(c)
            IN Side(e.l) \o <<Kw(e.op)>> \o Side(e.r)

(* items[1], items[2], ... each a token sequence, joined by commas. *)
RECURSIVE CommaJoin(_)
CommaJoin(items) ==
    IF Len(items) = 0 THEN <<>>
    ELSE IF Len(items) = 1 THEN items[1]
    ELSE items[1] \o <<Kw(",")>> \o CommaJoin(Tail(items))

-----------------------------------------------------------------------------
(* Go slices.  A slice is a header into the heap; nil has no array.        *)

NilSlice == [arr |-> 0, len |-> 0, cap |-> 0]
Zero == [k |-> "zero"]

View(h, s) == IF s.len = 0 THEN <<>> ELSE SubSeq(h[s.arr], 1, s.len)

(* The capacity of the array append allocates when the old one is too      *)
(* small: the needed length when that is more than twice the old           *)
(* capacity, and twice the old capacity otherwise.                         *)
GrowCap(oldCap, need) == IF need > 2 * oldCap THEN need ELSE 2 * oldCap

(* A slice of fresh elements, as the compiler builds for a variadic call. *)
NewSlice(h, xs) ==
    IF Len(xs) = 0 THEN [heap |-> h, hdr |-> NilSlice]
    ELSE [heap |-> Append(h, xs),
          hdr |-> [arr |-> Len(h) + 1, len |-> Len(xs), cap |-> Len(xs)]]

(* append(s, xs...): in place when the capacity suffices, into a new array *)
(* otherwise.                                                              *)
AppendSlice(h, s, xs) ==
    LET need == s.len + Len(xs) IN
    IF Len(xs) = 0 THEN [heap |-> h, hdr |-> s]
    ELSE IF need <= s.cap
    THEN [heap |-> [h EXCEPT ![s.arr] =
                      [j \in 1..s.cap |->
                          IF j > s.len /\ j <= need THEN xs[j - s.len] ELSE @[j]]],
          hdr |-> [s EXCEPT !.len = need]]
    ELSE LET c == GrowCap(s.cap, need)
             old == View(h, s)
         IN [heap |-> Append(h, [j \in 1..c |->
                          IF j <= s.len THEN old[j]
                          ELSE IF j <= need THEN xs[j - s.len] ELSE Zero]),
             hdr |-> [arr |-> Len(h) + 1, len |-> need, cap |-> c]]

-----------------------------------------------------------------------------
(* What SQL() returns: the text and no error, or no text and an error; a   *)
(* panic of the call is the third outcome.                                 *)

SQLText(tokens) == [st |-> "ok", text |-> tokens, err |-> <<>>]
SQLError(msgs) == [st |-> "err", text |-> <<>>, err |-> msgs]
SQLPanic(why) == [st |-> "panic", text |-> <<>>, err |-> <<why>>]

Nil == [k |-> "nil"]
IntPtr(n) == [k |-> "ptr", n |-> n]

-----------------------------------------------------------------------------
(* SELECT *)

NoColumnsSpecified == "no columns specified"

Select(table, cols) ==
    [k |-> "select", table |-> table, cols |-> cols,
     conds |-> NilSlice, ords |-> NilSlice, limit |-> Nil]

(* Each clause-adding method copies the struct (slice headers included)    *)
(* and appends to the copy's slice.                                        *)
SelectWhere(h, s, conds) ==
    LET r == AppendSlice(h, s.conds, conds)
    IN [heap |-> r.heap, stmt |-> [s EXCEPT !.conds = r.hdr]]

OrderBy(h, s, col, dir) ==
    LET r == AppendSlice(h, s.ords, <<[col |-> col, dir |-> dir]>>)
    IN [heap |-> r.heap, stmt |-> [s EXCEPT !.ords = r.hdr]]

(* Not the code: Limit altered so that a limit already set is kept. *)
LimitKeepingFirst(s, limit) ==
    IF s.limit = Nil THEN [s EXCEPT !.limit = IntPtr(limit)] ELSE s

Limit(s, limit) == [s EXCEPT !.limit = IntPtr(limit)]

SelectToAST(h, s, ea) ==
    LET conds == View(h, s.conds)
        where == IF Len(conds) > 0 THEN AndToASTWhere(conds, ea) ELSE Ok(Nil)
    IN IF where.st # "ok" THEN where
       ELSE IF Len(s.cols) <= 0 THEN Err(<<NoColumnsSpecified>>)
       ELSE Ok([k |-> "select", from |-> s.table, results |-> s.cols,
                where |-> where.val, orderBy |-> View(h, s.ords),
                limit |-> s.limit])

SelectText(a) ==
    <<Kw("SELECT")>> \o CommaJoin([i \in 1..Len(a.results) |-> <<Name(<<a.results[i]>>)>>])
    \o <<Kw("FROM"), Name(<<a.from>>)>>
    \o (IF a.where = Nil THEN <<>> ELSE <<Kw("WHERE")>> \o ExprSQL(a.where))
    \o (IF Len(a.orderBy) = 0 THEN <<>>
        ELSE <<Kw("ORDER BY")>> \o
             CommaJoin([i \in 1..Len(a.orderBy) |->
                          <<Name(<<a.orderBy[i].col>>), Kw(a.orderBy[i].dir)>>]))
    \o (IF a.limit = Nil THEN <<>> ELSE <<Kw("LIMIT"), Num(a.limit.n)>>)

SelectSQL(h, s, ea) ==
    LET a == SelectToAST(h, s, ea)
    IN IF a.st # "ok" THEN SQLError(a.msgs) ELSE SQLText(SelectText(a.val))

-----------------------------------------------------------------------------
(* DELETE, with the chainable Where. *)

Delete(table) == [k |-> "delete", table |-> table, conds |-> NilSlice]

DeleteWhere(h, s, conds) ==
    LET r == AppendSlice(h, s.conds, conds)
    IN [heap |-> r.heap,
        stmt |-> [k |-> "delete", table |-> s.table, conds |-> r.hdr]]

DeleteToAST(h, s, ea) ==
    LET cond == AndToASTWhere(View(h, s.conds), ea)
    IN IF cond.st # "ok" THEN cond
       ELSE Ok([k |-> "delete", table |-> s.table, where |-> cond.val])

DeleteText(a) ==
    <<Kw("DELETE FROM"), Name(<<a.table>>), Kw("WHERE")>> \o ExprSQL(a.where)

DeleteSQL(h, s, ea) ==
    LET a == DeleteToAST(h, s, ea)
    IN IF a.st # "ok" THEN SQLError(a.msgs) ELSE SQLText(DeleteText(a.val))

(* DELETE, with the conditions given to the constructor: only the first    *)
(* condition is converted, and it is indexed without a length check.       *)
Delete0(h, table, conds) ==
    LET r == NewSlice(h, conds)
    IN [heap |-> r.heap,
        stmt |-> [k |-> "delete0", table |-> table, conds |-> r.hdr]]

CondToAstWhere(c) == IF HasEmptyIdent(c) THEN Err(<<EmptyIdentifier>>) ELSE Ok(c)

Delete0ToAST(h, s) ==
    LET conds == View(h, s.conds)
    IN IF Len(conds) = 0 THEN Panic("index out of range")
       ELSE LET cond == CondToAstWhere(conds[1])
            IN IF cond.st # "ok" THEN cond
               ELSE Ok([k |-> "delete", table |-> s.table, where |-> cond.val])

Delete0SQL(h, s) ==
    LET a == Delete0ToAST(h, s)
    IN CASE a.st = "panic" -> SQLPanic(a.why)
         [] a.st = "err" -> SQLError(a.msgs)
         [] OTHER -> SQLText(DeleteText(a.val))

-----------------------------------------------------------------------------
(* INSERT: the conversion of one row value into a VALUES row. *)

NoInputSpecified == "neither VALUES nor SELECT specified"
EmptyValues == "empty values"
CantCreateInsertInput == "can't create InsertInput"
CantConvertRow == "can't convert into SQL row"
NeitherStructNorSlice == "is neither struct nor slice"
ColumnNotFound == "does not have column"
ValuesNotSlice == "values it not a slice"
ZeroValuePanic == "reflect: call of reflect.Value.Type on zero Value"
LenPanic == "reflect: call of reflect.Value.Len on a Value that has no length"

(* A record field: its Go name, its spanner tag and its value. *)
Field(name, tag, val) == [name |-> name, tag |-> tag, val |-> val]

columnNameOf(field) ==
    IF field.tag = "" THEN [name |-> field.name, ok |-> TRUE]
    ELSE IF field.tag = "-" THEN [name |-> "", ok |-> FALSE]
    ELSE [name |-> field.tag, ok |-> TRUE]

(* The loop of sliceToValuesRow from element i on, row being the           *)
(* expressions appended so far.                                            *)
RECURSIVE SliceLoop(_, _, _)
SliceLoop(elems, i, row) ==
    IF i > Len(elems) THEN Ok(row)
    ELSE LET expr == ToExpr(elems[i])
         IN IF expr.st # "ok" THEN expr
            ELSE SliceLoop(elems, i + 1, Append(row, DefaultExpr(expr.val)))

sliceToValuesRow(valV) == SliceLoop(valV.elems, 1, <<>>)

(* The inner loop of structToValuesRow, over the fields from i on. *)
RECURSIVE FieldLoop(_, _, _, _, _)
FieldLoop(fields, colName, i, row, colFound) ==
    IF i > Len(fields) THEN Ok([row |-> row, colFound |-> colFound])
    ELSE LET cn == columnNameOf(fields[i])
         IN IF ~cn.ok \/ cn.name # colName
            THEN FieldLoop(fields, colName, i + 1, row, colFound)
            ELSE LET expr == ToExpr(fields[i].val)
                 IN IF expr.st # "ok" THEN expr
                    ELSE FieldLoop(fields, colName, i + 1,
                                   Append(row, DefaultExpr(expr.val)), TRUE)

(* The outer loop of structToValuesRow, over the columns from c on. *)
RECURSIVE ColumnLoop(_, _, _, _)
ColumnLoop(cols, fields, c, row) ==
    IF c > Len(cols) THEN Ok(row)
    ELSE LET r == FieldLoop(fields, cols[c], 1, row, FALSE)
         IN IF r.st # "ok" THEN r
            ELSE IF ~r.val.colFound THEN Err(<<ColumnNotFound>>)
            ELSE ColumnLoop(cols, fields, c + 1, r.val.row)

(* valV is the zero reflect.Value (GoNil here) when it is the Elem() of a  *)
(* nil pointer: Type() panics on it.                                       *)
structToValuesRow(cols, valV) ==
    IF valV.t = "nil" THEN Panic(ZeroValuePanic)
    ELSE ColumnLoop(cols, valV.fields, 1, <<>>)

(* Not the code: toValuesRow altered so that a slice row must have one      *)
(* element per column.                                                     *)
toValuesRowChecked(cols, val) ==
    CASE val.t = "nil" -> Panic(ZeroValuePanic)
      [] val.t = "slice" ->
            IF Len(val.elems) # Len(cols) THEN Err(<<"wrong number of values">>)
            ELSE sliceToValuesRow(val)
      [] val.t = "struct" -> structToValuesRow(cols, val)
      [] val.t = "ptr" ->
            IF val.elem = "struct" THEN structToValuesRow(cols, val.to)
            ELSE Err(<<NeitherStructNorSlice>>)
      [] OTHER -> Err(<<NeitherStructNorSlice>>)

toValuesRow(cols, val) ==
    CASE val.t = "nil" -> Panic(ZeroValuePanic)
      [] val.t = "slice" -> sliceToValuesRow(val)
      [] val.t = "struct" -> structToValuesRow(cols, val)
      [] val.t = "ptr" ->
            IF val.elem = "struct" THEN structToValuesRow(cols, val.to)
            ELSE Err(<<NeitherStructNorSlice>>)
      [] OTHER -> Err(<<NeitherStructNorSlice>>)

(* The unnamed file's toValuesRow: Len() of the value, whatever its kind. *)
toValuesRow0(val) ==
    IF val.t = "slice" THEN sliceToValuesRow(val) ELSE Panic(LenPanic)

-----------------------------------------------------------------------------
(* INSERT: the statement. *)

Insert(table, cols) ==
    [k |-> "insert", table |-> table, cols |-> cols, values |-> GoNil]

Values(s, values) ==
    [k |-> "insert", table |-> s.table, cols |-> s.cols, values |-> values]

(* The loop of sliceToInsertInput over the rows from i on. *)
RECURSIVE RowLoop(_, _, _, _)
RowLoop(cols, rowsV, i, rows) ==
    IF i > Len(rowsV) THEN Ok(rows)
    ELSE LET row == toValuesRow(cols, rowsV[i])
         IN CASE row.st = "panic" -> row
              [] row.st = "err" -> Err(<<CantConvertRow>> \o row.msgs)
              [] OTHER -> RowLoop(cols, rowsV, i + 1, Append(rows, row.val))

sliceToInsertInput(cols, rowsV) ==
    IF Len(rowsV) <= 0 THEN Err(<<EmptyValues>>)
    ELSE RowLoop(cols, rowsV, 1, <<>>)

InsertToAST(s) ==
    IF s.values = GoNil THEN Err(<<NoInputSpecified>>)
    ELSE IF s.values.t = "slice"
    THEN LET input == sliceToInsertInput(s.cols, s.values.elems)
         IN IF input.st # "ok" THEN input
            ELSE Ok([k |-> "insert", table |-> s.table, columns |-> s.cols,
                     rows |-> input.val])
    ELSE Err(<<CantCreateInsertInput>>)

InsertText(a) ==
    <<Kw("INSERT INTO"), Name(<<a.table>>), Kw("(")>>
    \o CommaJoin([i \in 1..Len(a.columns) |-> <<Name(<<a.columns[i]>>)>>])
    \o <<Kw(")"), Kw("VALUES")>>
    \o CommaJoin([i \in 1..Len(a.rows) |->
          <<Kw("(")>>
          \o CommaJoin([j \in 1..Len(a.rows[i]) |-> ExprSQL(a.rows[i][j])])
          \o <<Kw(")")>>])

InsertSQL(s) ==
    LET a == InsertToAST(s)
    IN CASE a.st = "panic" -> SQLPanic(a.why)
         [] a.st = "err" -> SQLError(a.msgs)
         [] OTHER -> SQLText(InsertText(a.val))

(* The unnamed file's INSERT: no nil check before reflect's Type(). *)
Insert0(table, cols) ==
    [k |-> "insert0", table |-> table, cols |-> cols, values |-> GoNil]

Values0(s, values) ==
    [k |-> "insert0", table |-> s.table, cols |-> s.cols, values |-> values]

(* The loop of the unnamed file's toAST over the rows from i on. *)
RECURSIVE RowLoop0(_, _, _)
RowLoop0(rowsV, i, rows) ==
    IF i > Len(rowsV) THEN Ok(rows)
    ELSE LET row == toValuesRow0(rowsV[i])
         IN CASE row.st = "panic" -> row
              [] row.st = "err" -> Err(<<CantConvertRow>> \o row.msgs)
              [] OTHER -> RowLoop0(rowsV, i + 1, Append(rows, row.val))

Insert0ToAST(s) ==
    IF s.values = GoNil THEN Panic(ZeroValuePanic)
    ELSE IF s.values.t # "slice" THEN Err(<<ValuesNotSlice>>)
    ELSE IF Len(s.values.elems) <= 0 THEN Err(<<EmptyValues>>)
    ELSE LET input == RowLoop0(s.values.elems, 1, <<>>)
         IN IF input.st # "ok" THEN input
            ELSE Ok([k |-> "insert", table |-> s.table, columns |-> s.cols,
                     rows |-> input.val])

Insert0SQL(s) ==
    LET a == Insert0ToAST(s)
    IN CASE a.st = "panic" -> SQLPanic(a.why)
         [] a.st = "err" -> SQLError(a.msgs)
         [] OTHER -> SQLText(InsertText(a.val))

-----------------------------------------------------------------------------
(* UPDATE *)

NoSetClause == "UPDATE without SET clause"

Update(table) == [k |-> "update", table |-> table, sets |-> <<>>, conds |-> <<>>]

Set(s, target, value) ==
    [s EXCEPT !.sets = Append(@, [target |-> target, value |-> value])]

UpdateWhere(s, conds) == [s EXCEPT !.conds = @ \o conds]

(* The assignments from i on, as expressions. *)
RECURSIVE SetLoop(_, _, _)
SetLoop(sets, i, items) ==
    IF i > Len(sets) THEN Ok(items)
    ELSE IF HasEmptyIdent(sets[i].target) THEN Err(<<EmptyIdentifier>>)
    ELSE LET expr == ToExpr(sets[i].value)
         IN IF expr.st # "ok" THEN expr
            ELSE SetLoop(sets, i + 1,
                         Append(items, [path |-> sets[i].target, expr |-> expr.val]))

(* Not the code: UpdateToAST altered so that the WHERE clause is required  *)
(* before the SET clause.                                                  *)
UpdateToASTWhereFirst(s, ea) ==
    IF Len(s.conds) = 0 THEN Err(<<NoWhereClause>>)
    ELSE IF Len(s.sets) = 0 THEN Err(<<NoSetClause>>)
    ELSE LET items == SetLoop(s.sets, 1, <<>>)
             where == AndToASTWhere(s.conds, ea)
         IN IF items.st # "ok" THEN items
            ELSE IF where.st # "ok" THEN where
            ELSE Ok([k |-> "update", table |-> s.table, updates |-> items.val,
                     where |-> where.val])

UpdateToAST(s, ea) ==
    IF Len(s.sets) = 0 THEN Err(<<NoSetClause>>)
    ELSE IF Len(s.conds) = 0 THEN Err(<<NoWhereClause>>)
    ELSE LET items == SetLoop(s.sets, 1, <<>>)
             where == AndToASTWhere(s.conds, ea)
         IN IF items.st # "ok" THEN items
            ELSE IF where.st # "ok" THEN where
            ELSE Ok([k |-> "update", table |-> s.table, updates |-> items.val,
                     where |-> where.val])

UpdateText(a) ==
    <<Kw("UPDATE"), Name(<<a.table>>), Kw("SET")>>
    \o CommaJoin([i \in 1..Len(a.updates) |->
          ExprSQL(a.updates[i].path) \o <<Kw("=")>> \o ExprSQL(a.updates[i].expr)])
    \o <<Kw("WHERE")>> \o ExprSQL(a.where)

UpdateSQL(s, ea) ==
    LET a == UpdateToAST(s, ea)
    IN IF a.st # "ok" THEN SQLError(a.msgs) ELSE SQLText(UpdateText(a.val))

-----------------------------------------------------------------------------
(* The arguments the calls are explored with. *)

Table == "hoge"
ColNames == <<"A", "B", "C", "D">>
PrefixCols == {SubSeq(ColNames, 1, n) : n \in 0..MaxCols}

CondTrue == Bool(TRUE)
CondEq == Eq(Ident(<<"c">>), GoString("bar"))
CondBad == Eq(Ident(<<>>), GoInt(1))
Conds == {CondEq, CondBad}
ArgLists == SeqsUpTo(Conds, MaxArgs)

ASC == "ASC"
DESC == "DESC"
Dirs == {ASC, DESC}
Limits == 0..MaxLimit

Targets == {Ident(<<"a">>), Ident(<<>>)}
SetValues == {GoInt(1), GoExpr(Param("a"))}

(* Row values and value sources of the statement pool. *)
RecordAB == GoStruct(<<Field("A", "", GoInt(1)), Field("B", "", GoString("foo"))>>)
PoolRows == {GoSlice(<<GoInt(1)>>), GoSlice(<<GoInt(1), GoString("foo")>>),
             RecordAB, GoNil, GoPtr("struct", GoNil)}
(* The narrower arguments of the slice-sharing exploration. *)
AliasCols == {<<"A">>}
AliasArgLists == SeqsUpTo({CondTrue, CondEq}, MaxAliasArgs)

(* The rows of the row-encoder runs: slices of scalars, records whose      *)
(* fields carry a tag each, pointers to them, and values that are no row.  *)
RowElems == {GoInt(1), GoString("foo"), GoNil, GoMap}
SliceRows == {GoSlice(elems) : elems \in SeqsUpTo(RowElems, MaxRowLen)}
FieldNames == <<"A", "B", "C">>
FieldValue(name) ==
    CASE name = "A" -> GoInt(1) [] name = "B" -> GoString("foo") [] OTHER -> GoMap
Tags == {"", "-", "A", "B"}
FieldLists ==
    {fs \in SeqsUpTo({Field(FieldNames[n], tag, FieldValue(FieldNames[n])) :
                         n \in 1..Len(FieldNames), tag \in Tags}, MaxFields) :
        \A i, j \in 1..Len(fs) : fs[i].name = fs[j].name => i = j}
Records == {GoStruct(fs) : fs \in FieldLists}
Rows ==
    SliceRows \cup Records \cup {GoPtr("struct", r) : r \in Records}
    \cup {GoNil, GoInt(1), GoPtr("struct", GoNil), GoPtr("int", GoInt(1))}
ColLists == SeqsUpTo({"A", "B"}, MaxCols)

ValueSources ==
    {GoNil, GoInt(1), GoSlice(<<>>)}
    \cup {GoSlice(<<r>>) : r \in PoolRows}
    \cup {GoSlice(<<GoSlice(<<GoInt(1)>>), r>>) : r \in PoolRows}

-----------------------------------------------------------------------------
(* The pool of statements. *)

NoCall == [stmt |-> 0]
NoRow == [k |-> "none"]
NotRun == [st |-> "none"]

Init ==
    /\ stmts = <<>>
    /\ heap = <<>>
    /\ hist = <<>>
    /\ out = NoCall
    /\ emptyAnd \in {"reject", "fold"}
    /\ rowIn = NoRow
    /\ rowOut = NoRow

(* The call that returned a statement: the method, the receiver (0 for a   *)
(* constructor) and its number: the count of a Limit, the number of        *)
(* conditions of a Where, -1 otherwise.                                    *)
Made(op, from, n) == [op |-> op, from |-> from, n |-> n]

(* The condition list and the ordering list read through a statement. *)
CondsIn(h, s) ==
    CASE s.k \in {"select", "delete", "delete0"} -> View(h, s.conds)
      [] s.k = "update" -> s.conds
      [] OTHER -> <<>>

OrdsIn(h, s) == IF s.k = "select" THEN View(h, s.ords) ELSE <<>>

(* A call that returns a new statement.  The history keeps the call and    *)
(* the lists read through the statement when it was returned.              *)
Return(stmt, h, made) ==
    /\ stmts' = Append(stmts, stmt)
    /\ heap' = h
    /\ hist' = Append(hist, [op |-> made.op, from |-> made.from, n |-> made.n,
                             conds |-> CondsIn(h, stmt), ords |-> OrdsIn(h, stmt)])
    /\ out' = NoCall
    /\ UNCHANGED <<emptyAnd, rowIn, rowOut>>

Is(i, kind) == i \in 1..Len(stmts) /\ stmts[i].k = kind

CallSelect(cols) == Return(Select(Table, cols), heap, Made("Select", 0, -1))

CallSelectWhere(i, conds) ==
    /\ Is(i, "select")
    /\ LET r == SelectWhere(heap, stmts[i], conds)
       IN Return(r.stmt, r.heap, Made("Where", i, Len(conds)))

CallOrderBy(i, col, dir) ==
    /\ Is(i, "select")
    /\ LET r == OrderBy(heap, stmts[i], col, dir)
       IN Return(r.stmt, r.heap, Made("OrderBy", i, -1))

CallLimit(i, limit) ==
    /\ Is(i, "select")
    /\ Return(Limit(stmts[i], limit), heap, Made("Limit", i, limit))

CallDelete == Return(Delete(Table), heap, Made("Delete", 0, -1))

CallDeleteWhere(i, conds) ==
    /\ Is(i, "delete")
    /\ LET r == DeleteWhere(heap, stmts[i], conds)
       IN Return(r.stmt, r.heap, Made("Where", i, Len(conds)))

CallDelete0(conds) ==
    LET r == Delete0(heap, Table, conds)
    IN Return(r.stmt, r.heap, Made("Delete", 0, Len(conds)))

CallInsert(cols) == Return(Insert(Table, cols), heap, Made("Insert", 0, -1))

CallValues(i, values) ==
    /\ Is(i, "insert")
    /\ Return(Values(stmts[i], values), heap, Made("Values", i, -1))

CallInsert0(cols) == Return(Insert0(Table, cols), heap, Made("Insert", 0, -1))

CallValues0(i, values) ==
    /\ Is(i, "insert0")
    /\ Return(Values0(stmts[i], values), heap, Made("Values", i, -1))

CallUpdate == Return(Update(Table), heap, Made("Update", 0, -1))

CallSet(i, target, value) ==
    /\ Is(i, "update")
    /\ Return(Set(stmts[i], target, value), heap, Made("Set", i, -1))

CallUpdateWhere(i, conds) ==
    /\ Is(i, "update")
    /\ Return(UpdateWhere(stmts[i], conds), heap, Made("Where", i, Len(conds)))

(* What SQL() of a statement returns in a heap. *)
SQL(h, ea, s) ==
    CASE s.k = "select" -> SelectSQL(h, s, ea)
      [] s.k = "delete" -> DeleteSQL(h, s, ea)
      [] s.k = "delete0" -> Delete0SQL(h, s)
      [] s.k = "insert" -> InsertSQL(s)
      [] s.k = "insert0" -> Insert0SQL(s)
      [] s.k = "update" -> UpdateSQL(s, ea)

SQLOf(i) == SQL(heap, emptyAnd, stmts[i])

(* Not the code: CallSQL altered so that rendering a SELECT statement      *)
(* consumes its limit.                                                     *)
CallSQLResetting(i) ==
    /\ i \in 1..Len(stmts)
    /\ out' = [stmt |-> i, res |-> SQLOf(i), stmts |-> stmts, heap |-> heap]
    /\ stmts' = [stmts EXCEPT ![i] =
                    IF @.k = "select" THEN [@ EXCEPT !.limit = Nil] ELSE @]
    /\ UNCHANGED <<heap, hist, emptyAnd, rowIn, rowOut>>

(* SQL() reads the statement and writes nothing. *)
CallSQL(i) ==
    /\ i \in 1..Len(stmts)
    /\ out' = [stmt |-> i, res |-> SQLOf(i), stmts |-> stmts, heap |-> heap]
    /\ UNCHANGED <<stmts, heap, hist, emptyAnd, rowIn, rowOut>>

-----------------------------------------------------------------------------
(* The specifications: all statement kinds together, and one kind alone    *)
(* with a deeper pool.                                                     *)

Room(max) == Len(stmts) < max
Pool == 1..Len(stmts)

Next ==
    \/ Room(MaxStmts) /\ \E cols \in PrefixCols : CallSelect(cols)
    \/ Room(MaxStmts) /\ \E i \in Pool, conds \in ArgLists : CallSelectWhere(i, conds)
    \/ Room(MaxStmts) /\ \E i \in Pool, dir \in Dirs : CallOrderBy(i, "A", dir)
    \/ Room(MaxStmts) /\ \E i \in Pool, limit \in Limits : CallLimit(i, limit)
    \/ Room(MaxStmts) /\ CallDelete
    \/ Room(MaxStmts) /\ \E i \in Pool, conds \in ArgLists : CallDeleteWhere(i, conds)
    \/ Room(MaxStmts) /\ \E conds \in ArgLists : CallDelete0(conds)
    \/ Room(MaxStmts) /\ \E cols \in PrefixCols : CallInsert(cols)
    \/ Room(MaxStmts) /\ \E i \in Pool, values \in ValueSources : CallValues(i, values)
    \/ Room(MaxStmts) /\ \E cols \in PrefixCols : CallInsert0(cols)
    \/ Room(MaxStmts) /\ \E i \in Pool, values \in ValueSources : CallValues0(i, values)
    \/ Room(MaxStmts) /\ CallUpdate
    \/ Room(MaxStmts) /\ \E i \in Pool, target \in Targets, value \in SetValues :
                            CallSet(i, target, value)
    \/ Room(MaxStmts) /\ \E i \in Pool, conds \in ArgLists : CallUpdateWhere(i, conds)
    \/ \E i \in Pool : CallSQL(i)

Spec == Init /\ [][Next]_vars

NextSelect ==
    \/ Room(MaxSelectStmts) /\ \E cols \in PrefixCols : CallSelect(cols)
    \/ Room(MaxSelectStmts) /\ \E i \in Pool, conds \in ArgLists : CallSelectWhere(i, conds)
    \/ Room(MaxSelectStmts) /\ \E i \in Pool, dir \in Dirs : CallOrderBy(i, "A", dir)
    \/ Room(MaxSelectStmts) /\ \E i \in Pool, limit \in Limits : CallLimit(i, limit)
    \/ \E i \in Pool : CallSQL(i)

SpecSelect == Init /\ [][NextSelect]_vars

NextUpdate ==
    \/ Room(MaxUpdateStmts) /\ CallUpdate
    \/ Room(MaxUpdateStmts) /\ \E i \in Pool, target \in Targets, value \in SetValues :
                                  CallSet(i, target, value)
    \/ Room(MaxUpdateStmts) /\ \E i \in Pool, conds \in ArgLists : CallUpdateWhere(i, conds)
    \/ \E i \in Pool : CallSQL(i)

SpecUpdate == Init /\ [][NextUpdate]_vars

NextAlias ==
    \/ Room(MaxAliasStmts) /\ \E cols \in AliasCols : CallSelect(cols)
    \/ Room(MaxAliasStmts) /\ \E i \in Pool, conds \in AliasArgLists : CallSelectWhere(i, conds)
    \/ Room(MaxAliasStmts) /\ \E i \in Pool, dir \in Dirs : CallOrderBy(i, "A", dir)
    \/ Room(MaxAliasStmts) /\ \E i \in Pool, limit \in Limits : CallLimit(i, limit)
    \/ Room(MaxAliasStmts) /\ CallDelete
    \/ Room(MaxAliasStmts) /\ \E i \in Pool, conds \in AliasArgLists : CallDeleteWhere(i, conds)

SpecAlias == Init /\ [][NextAlias]_vars

-----------------------------------------------------------------------------
(* The row encoder alone: one column list and one row value, converted by  *)
(* toValuesRow, by the unnamed file's toValuesRow, and rendered by the     *)
(* INSERT statement whose only row it is.                                  *)

InitRow ==
    /\ stmts = <<>>
    /\ heap = <<>>
    /\ hist = <<>>
    /\ out = NoCall
    /\ emptyAnd = "reject"
    /\ rowIn \in [cols : ColLists, row : Rows]
    /\ rowOut = [row |-> NotRun, row0 |-> NotRun, sql |-> NotRun]

RunToValuesRow ==
    /\ rowOut.row = NotRun
    /\ rowOut' = [rowOut EXCEPT !.row = toValuesRow(rowIn.cols, rowIn.row)]
    /\ UNCHANGED <<stmts, heap, hist, out, emptyAnd, rowIn>>

RunToValuesRow0 ==
    /\ rowOut.row0 = NotRun
    /\ rowOut' = [rowOut EXCEPT !.row0 = toValuesRow0(rowIn.row)]
    /\ UNCHANGED <<stmts, heap, hist, out, emptyAnd, rowIn>>

RunInsertSQL ==
    /\ rowOut.sql = NotRun
    /\ rowOut' = [rowOut EXCEPT !.sql =
                    InsertSQL(Values(Insert(Table, rowIn.cols), GoSlice(<<rowIn.row>>)))]
    /\ UNCHANGED <<stmts, heap, hist, out, emptyAnd, rowIn>>

NextRow == RunToValuesRow \/ RunToValuesRow0 \/ RunInsertSQL

SpecRow == InitRow /\ [][NextRow]_vars

-----------------------------------------------------------------------------
(* History of a statement: the calls on its derivation chain. *)

(* The argument of the most recent Limit call on the chain of i, or -1. *)
RECURSIVE LastLimit(_)
LastLimit(i) ==
    IF hist[i].op = "Limit" THEN hist[i].n
    ELSE IF hist[i].from = 0 THEN -1
    ELSE LastLimit(hist[i].from)

(* The number of calls of method op on the chain of i. *)
RECURSIVE Calls(_, _)
Calls(i, op) ==
    (IF hist[i].op = op THEN 1 ELSE 0)
    + (IF hist[i].from = 0 THEN 0 ELSE Calls(hist[i].from, op))

(* The number of conditions given on the chain of i. *)
RECURSIVE CondsGiven(_)
CondsGiven(i) ==
    (IF hist[i].op \in {"Where", "Delete"} THEN hist[i].n ELSE 0)
    + (IF hist[i].from = 0 THEN 0 ELSE CondsGiven(hist[i].from))

-----------------------------------------------------------------------------
(* C1: the condition list and the ordering list read through a statement   *)
(* stay the ones it was returned with, whatever is later appended to       *)
(* statements derived from the same ancestor.                              *)
C1_PersistentClauses ==
    \A i \in Pool :
        /\ CondsIn(heap, stmts[i]) = hist[i].conds
        /\ OrdsIn(heap, stmts[i]) = hist[i].ords

(* C2: SQL() of every statement returns a text and no error, or no text    *)
(* and an error; it never panics.                                          *)
C2_NoFault ==
    out.stmt # 0 =>
        \/ out.res.st = "ok" /\ out.res.err = <<>>
        \/ out.res.st = "err" /\ out.res.text = <<>> /\ out.res.err # <<>>

C5_NoColumnsFirst ==
    \A i \in Pool :
        /\ out.stmt = i
        /\ stmts[i].k = "select"
        /\ Len(stmts[i].cols) = 0
        => out.res = SQLError(<<NoColumnsSpecified>>)

(* C6: an INSERT statement renders only with a non-empty column list and   *)
(* a non-nil value source of at least one row; without Values it fails     *)
(* with the no-input error, and with no row with the empty-values error.   *)
C6_InsertRequiresColumnsAndRows ==
    \A i \in Pool :
        out.stmt = i /\ stmts[i].k = "insert" =>
            LET s == stmts[i]
                r == out.res
            IN /\ s.values = GoNil => r = SQLError(<<NoInputSpecified>>)
               /\ s.values = GoSlice(<<>>) => r = SQLError(<<EmptyValues>>)
               /\ r.st = "ok" => /\ Len(s.cols) > 0
                                 /\ s.values.t = "slice"
                                 /\ Len(s.values.elems) > 0

(* C3: SQL() of an UPDATE statement on whose chain Set was never called    *)
(* fails with the no-SET error, whether or not conditions were given; with *)
(* a Set call and no condition it fails with the missing-WHERE error; no   *)
(* text is returned in either case.                                        *)
C3_UpdateRequiresSetAndWhere ==
    \A i \in Pool :
        out.stmt = i /\ stmts[i].k = "update" =>
            /\ Calls(i, "Set") = 0 => out.res = SQLError(<<NoSetClause>>)
            /\ Calls(i, "Set") > 0 /\ CondsGiven(i) = 0
                   => out.res = SQLError(<<NoWhereClause>>)

(* An UPDATE statement given conditions and no assignment has been         *)
(* rendered.                                                               *)
C3_Witness ==
    \E i \in Pool :
        /\ out.stmt = i
        /\ stmts[i].k = "update"
        /\ Calls(i, "Set") = 0
        /\ CondsGiven(i) > 0

RecordOf(row) == IF row.t = "ptr" THEN row.to ELSE row

IsRecord(row) == RecordOf(row).t = "struct"

Matching(fields, col) ==
    {j \in 1..Len(fields) : columnNameOf(fields[j]).ok /\ columnNameOf(fields[j]).name = col}

(* C7: a record row in which every listed column is matched by a field     *)
(* that is not excluded (and whose value can be encoded) is encoded into   *)
(* as many expressions as there are columns, the i-th being the encoding   *)
(* of a field resolved to the i-th column.                                 *)
C7_RecordRowAligned ==
    rowIn # NoRow /\ rowOut.row # NotRun /\ IsRecord(rowIn.row) =>
        LET fields == RecordOf(rowIn.row).fields
            cols == rowIn.cols
        IN (\A c \in 1..Len(cols) :
                /\ Matching(fields, cols[c]) # {}
                /\ \A j \in Matching(fields, cols[c]) : ToExpr(fields[j].val).st = "ok")
           => /\ rowOut.row.st = "ok"
              /\ Len(rowOut.row.val) = Len(cols)
              /\ \A c \in 1..Len(cols) :
                    \E j \in Matching(fields, cols[c]) :
                        rowOut.row.val[c] = DefaultExpr(ToExpr(fields[j].val).val)

HasLimit(text, n) ==
    /\ Len(text) >= 2
    /\ text[Len(text) - 1] = Kw("LIMIT")
    /\ text[Len(text)] = Num(n)

(* C9: the limit of a SELECT statement is the argument of the most recent  *)
(* Limit call on its chain, and absent when there is none; so is the LIMIT *)
(* clause of its text.  A statement returned by Limit has the table, the   *)
(* columns, the conditions and the orderings of the receiver.              *)
C9_LimitReplaces ==
    \A i \in Pool :
        stmts[i].k = "select" =>
            LET last == LastLimit(i)
                r == SQLOf(i)
            IN /\ stmts[i].limit = (IF last = -1 THEN Nil ELSE IntPtr(last))
               /\ r.st = "ok" =>
                     /\ last = -1 => \A j \in 1..Len(r.text) : r.text[j] # Kw("LIMIT")
                     /\ last # -1 => HasLimit(r.text, last)
                     /\ Cardinality({j \in 1..Len(r.text) : r.text[j] = Kw("LIMIT")}) <= 1
               /\ hist[i].op = "Limit" =>
                     LET p == stmts[hist[i].from]
                     IN /\ stmts[i].table = p.table
                        /\ stmts[i].cols = p.cols
                        /\ CondsIn(heap, stmts[i]) = CondsIn(heap, p)
                        /\ OrdsIn(heap, stmts[i]) = OrdsIn(heap, p)

(* Limit was called on a statement whose chain already had another limit,  *)
(* and the result renders.                                                 *)
C9_Witness ==
    \E i \in Pool :
        /\ stmts[i].k = "select"
        /\ hist[i].op = "Limit"
        /\ LastLimit(hist[i].from) \notin {-1, hist[i].n}
        /\ out.stmt = i
        /\ out.res.st = "ok"

Encodable(row) ==
    /\ row.t = "slice"
    /\ \A j \in 1..Len(row.elems) : ToExpr(row.elems[j]).st = "ok"

ElementWise(row) ==
    [j \in 1..Len(row.elems) |-> DefaultExpr(ToExpr(row.elems[j]).val)]

(* C10: a slice row of values that can be encoded is encoded, by either    *)
(* toValuesRow, into one expression per element, in element order,         *)
(* whatever the number of columns; the INSERT statement renders it.        *)
C10_SliceRowNotLengthChecked ==
    rowIn # NoRow /\ Encodable(rowIn.row) =>
        /\ rowOut.row # NotRun => rowOut.row = Ok(ElementWise(rowIn.row))
        /\ rowOut.row0 # NotRun => rowOut.row0 = Ok(ElementWise(rowIn.row))
        /\ rowOut.sql # NotRun =>
              rowOut.sql = SQLText(InsertText(
                  [k |-> "insert", table |-> Table, columns |-> rowIn.cols,
                   rows |-> <<ElementWise(rowIn.row)>>]))

(* A slice row longer than a non-empty column list has been encoded and    *)
(* rendered.                                                               *)
C10_Witness ==
    /\ rowIn # NoRow
    /\ Encodable(rowIn.row)
    /\ Len(rowIn.cols) > 0
    /\ Len(rowIn.row.elems) > Len(rowIn.cols)
    /\ rowOut.row # NotRun
    /\ rowOut.sql # NotRun
    /\ rowOut.sql.st = "ok"

====
